---- MODULE Spec2Model ----
(***************************************************************************)
(* Tic Tac Toe (src/main.rs): the TicTacToe game state, its two mutating   *)
(* operations make_move and reset, and its two queries check_winner and    *)
(* check_draw.                                                             *)
(*                                                                         *)
(* Encoding of the Rust types:                                             *)
(*   Player            "X" | "O"                                           *)
(*   Cell              "Empty" | Cell_Player(p)                            *)
(*   Option<Player>    "None" | Some(p)                                    *)
(*   [[Cell; 3]; 3]    a function row -> (col -> Cell) on 0..2             *)
(*   TicTacToe         a record of the four fields                         *)
(***************************************************************************)
EXTENDS Integers, FiniteSets, Sequences, TLC

VARIABLES board, current_player, game_over, winner, panicked, moves, last

vars == <<board, current_player, game_over, winner, panicked, moves, last>>

\* ------------------------------------------------------------------ bounds

\* Side of the board: board: [[Cell; 3]; 3].
N == 3

\* Largest index value handed to make_move in SpecOOR; the values N..MaxIndex
\* are out of range.
MaxIndex == 3

\* ------------------------------------------------------------------- types

Players == {"X", "O"}

Empty == "Empty"

Cell_Player(p) == p

Cells == {Empty} \cup {Cell_Player(p) : p \in Players}

None == "None"

Some(p) == p

OptionPlayer == {None} \cup {Some(p) : p \in Players}

\* Valid indices of a [_; 3] array.
Index == 0 .. (N - 1)

\* Index values a caller can pass when it is not restricted to the board.
AnyIndex == 0 .. MaxIndex

Boards == [Index -> [Index -> Cells]]

\* The struct as one value.
TicTacToe(b, cp, over, w) ==
    [board |-> b, current_player |-> cp, game_over |-> over, winner |-> w]

\* The struct the variables hold.
self == TicTacToe(board, current_player, game_over, winner)

\* --------------------------------------------------------------- functions

\* TicTacToe::new
new == TicTacToe([r \in Index |-> [c \in Index |-> Empty]], "X", FALSE, None)

\* The match in make_move that switches players.
other(p) == IF p = "X" THEN "O" ELSE "X"

\* TicTacToe::check_winner, mutated: the anti-diagonal test reads (2,2) in
\* place of (2,0).
check_winner_bad_anti(s, player) ==
    \/ \E row \in 0 .. 2 :
          /\ s.board[row][0] = Cell_Player(player)
          /\ s.board[row][1] = Cell_Player(player)
          /\ s.board[row][2] = Cell_Player(player)
    \/ \E col \in 0 .. 2 :
          /\ s.board[0][col] = Cell_Player(player)
          /\ s.board[1][col] = Cell_Player(player)
          /\ s.board[2][col] = Cell_Player(player)
    \/ /\ s.board[0][0] = Cell_Player(player)
       /\ s.board[1][1] = Cell_Player(player)
       /\ s.board[2][2] = Cell_Player(player)
    \/ /\ s.board[0][2] = Cell_Player(player)
       /\ s.board[1][1] = Cell_Player(player)
       /\ s.board[2][2] = Cell_Player(player)

\* TicTacToe::check_winner, mutated: the column loop is missing.
check_winner_no_columns(s, player) ==
    \/ \E row \in 0 .. 2 :
          /\ s.board[row][0] = Cell_Player(player)
          /\ s.board[row][1] = Cell_Player(player)
          /\ s.board[row][2] = Cell_Player(player)
    \/ /\ s.board[0][0] = Cell_Player(player)
       /\ s.board[1][1] = Cell_Player(player)
       /\ s.board[2][2] = Cell_Player(player)
    \/ /\ s.board[0][2] = Cell_Player(player)
       /\ s.board[1][1] = Cell_Player(player)
       /\ s.board[2][0] = Cell_Player(player)

\* TicTacToe::check_winner: the row loop, the column loop, the main diagonal,
\* the anti-diagonal; the first that matches returns true.
check_winner(s, player) ==
    \/ \E row \in 0 .. 2 :
          /\ s.board[row][0] = Cell_Player(player)
          /\ s.board[row][1] = Cell_Player(player)
          /\ s.board[row][2] = Cell_Player(player)
    \/ \E col \in 0 .. 2 :
          /\ s.board[0][col] = Cell_Player(player)
          /\ s.board[1][col] = Cell_Player(player)
          /\ s.board[2][col] = Cell_Player(player)
    \/ /\ s.board[0][0] = Cell_Player(player)
       /\ s.board[1][1] = Cell_Player(player)
       /\ s.board[2][2] = Cell_Player(player)
    \/ /\ s.board[0][2] = Cell_Player(player)
       /\ s.board[1][1] = Cell_Player(player)
       /\ s.board[2][0] = Cell_Player(player)

\* TicTacToe::check_draw, mutated: a board with a completed line is no draw.
check_draw_unless_won(s) ==
    /\ ~ \E row \in 0 .. 2 : \E col \in 0 .. 2 : s.board[row][col] = Empty
    /\ ~ \E p \in Players : check_winner(s, p)

\* TicTacToe::check_draw, mutated: the final return is false too.
check_draw_never(s) ==
    /\ ~ \E row \in 0 .. 2 : \E col \in 0 .. 2 : s.board[row][col] = Empty
    /\ FALSE

\* TicTacToe::check_draw, mutated: the outer loop stops after the first row.
check_draw_first_row(s) ==
    ~ \E row \in 0 .. 0 : \E col \in 0 .. 2 : s.board[row][col] = Empty

\* TicTacToe::check_draw: false at the first Empty cell, true otherwise.
check_draw(s) ==
    ~ \E row \in 0 .. 2 : \E col \in 0 .. 2 : s.board[row][col] = Empty

\* What a call leaves behind: the struct, and whether the call panicked.
Returned(s) == [self |-> s, panic |-> FALSE]

Panicked(s) == [self |-> s, panic |-> TRUE]

\* The bounds check of self.board[row][col] on a [[Cell; 3]; 3].
InBounds(row, col) == row < N /\ col < N

\* The tail of make_move, after the guard: place the mark, then the
\* win / draw / switch chain.
place_and_judge(s, row, col) ==
    LET placed == [s EXCEPT !.board[row][col] = Cell_Player(s.current_player)]
    IN  IF check_winner(placed, placed.current_player)
        THEN [placed EXCEPT !.game_over = TRUE,
                            !.winner = Some(placed.current_player)]
        ELSE IF check_draw(placed)
        THEN [placed EXCEPT !.game_over = TRUE]
        ELSE [placed EXCEPT !.current_player = other(placed.current_player)]

\* make_move, mutated: the player is switched after a winning move too.
make_move_switch_on_win(s, row, col) ==
    IF s.game_over THEN Returned(s)
    ELSE IF ~InBounds(row, col) THEN Panicked(s)
    ELSE IF s.board[row][col] # Empty THEN Returned(s)
    ELSE LET placed == [s EXCEPT !.board[row][col] = Cell_Player(s.current_player)]
         IN  IF check_winner(placed, placed.current_player)
             THEN Returned([placed EXCEPT !.game_over = TRUE,
                                          !.winner = Some(placed.current_player),
                                          !.current_player = other(placed.current_player)])
             ELSE IF check_draw(placed)
             THEN Returned([placed EXCEPT !.game_over = TRUE])
             ELSE Returned([placed EXCEPT !.current_player = other(placed.current_player)])

\* make_move, mutated: the mark placed is the other player's.
make_move_wrong_mark(s, row, col) ==
    IF s.game_over THEN Returned(s)
    ELSE IF ~InBounds(row, col) THEN Panicked(s)
    ELSE IF s.board[row][col] # Empty THEN Returned(s)
    ELSE LET placed == [s EXCEPT !.board[row][col] = Cell_Player(other(s.current_player))]
         IN  IF check_winner(placed, placed.current_player)
             THEN Returned([placed EXCEPT !.game_over = TRUE,
                                          !.winner = Some(placed.current_player)])
             ELSE IF check_draw(placed)
             THEN Returned([placed EXCEPT !.game_over = TRUE])
             ELSE Returned([placed EXCEPT !.current_player = other(placed.current_player)])

\* make_move, mutated: the guard does not test game_over.
make_move_no_over_test(s, row, col) ==
    IF ~InBounds(row, col) THEN Panicked(s)
    ELSE IF s.board[row][col] # Empty THEN Returned(s)
    ELSE Returned(place_and_judge(s, row, col))

\* make_move, mutated: the guard does not test the cell.
make_move_no_cell_test(s, row, col) ==
    IF s.game_over THEN Returned(s)
    ELSE IF ~InBounds(row, col) THEN Panicked(s)
    ELSE Returned(place_and_judge(s, row, col))

\* make_move, mutated: the guard's operands are swapped, so the cell is read
\* before game_over is tested.
make_move_cell_first(s, row, col) ==
    IF ~InBounds(row, col) THEN Panicked(s)
    ELSE IF s.board[row][col] # Empty \/ s.game_over THEN Returned(s)
    ELSE Returned(place_and_judge(s, row, col))

\* make_move, mutated: the draw test comes before the win test.
make_move_draw_first(s, row, col) ==
    IF s.game_over THEN Returned(s)
    ELSE IF ~InBounds(row, col) THEN Panicked(s)
    ELSE IF s.board[row][col] # Empty THEN Returned(s)
    ELSE LET placed == [s EXCEPT !.board[row][col] = Cell_Player(s.current_player)]
         IN  IF check_draw(placed)
             THEN Returned([placed EXCEPT !.game_over = TRUE])
             ELSE IF check_winner(placed, placed.current_player)
             THEN Returned([placed EXCEPT !.game_over = TRUE,
                                          !.winner = Some(placed.current_player)])
             ELSE Returned([placed EXCEPT !.current_player = other(placed.current_player)])

\* make_move, mutated: the match that switches players is missing.
make_move_no_switch(s, row, col) ==
    IF s.game_over THEN Returned(s)
    ELSE IF ~InBounds(row, col) THEN Panicked(s)
    ELSE IF s.board[row][col] # Empty THEN Returned(s)
    ELSE LET placed == [s EXCEPT !.board[row][col] = Cell_Player(s.current_player)]
         IN  IF check_winner(placed, placed.current_player)
             THEN Returned([placed EXCEPT !.game_over = TRUE,
                                          !.winner = Some(placed.current_player)])
             ELSE IF check_draw(placed)
             THEN Returned([placed EXCEPT !.game_over = TRUE])
             ELSE Returned(placed)

\* make_move, mutated: the guard reads board[row][col] and the mark is written
\* to board[col][row].
make_move_transposed(s, row, col) ==
    IF s.game_over THEN Returned(s)
    ELSE IF ~InBounds(row, col) THEN Panicked(s)
    ELSE IF s.board[row][col] # Empty THEN Returned(s)
    ELSE Returned(place_and_judge(s, col, row))

\* TicTacToe::make_move.  The guard is `self.game_over || self.board[row][col]
\* != Cell::Empty`: || short-circuits, so the cell is indexed (and its bounds
\* checked, panicking when row or col is not below 3) only while game_over is
\* false.  Nothing has been written when the guard panics or returns.
make_move(s, row, col) ==
    IF s.game_over THEN Returned(s)
    ELSE IF ~InBounds(row, col) THEN Panicked(s)
    ELSE IF s.board[row][col] # Empty THEN Returned(s)
    ELSE Returned(place_and_judge(s, row, col))

\* reset, mutated: winner is not cleared.
reset_keeps_winner(s) ==
    [s EXCEPT !.board = [r \in Index |-> [c \in Index |-> Empty]],
              !.current_player = "X",
              !.game_over = FALSE]

\* reset, mutated: current_player is not set back to X.
reset_keeps_player(s) ==
    [s EXCEPT !.board = [r \in Index |-> [c \in Index |-> Empty]],
              !.game_over = FALSE,
              !.winner = None]

\* TicTacToe::reset: the four assignments.
reset(s) ==
    [s EXCEPT !.board = [r \in Index |-> [c \in Index |-> Empty]],
              !.current_player = "X",
              !.game_over = FALSE,
              !.winner = None]

\* ----------------------------------------------------------------- history

\* The guard of make_move as a caller sees it: the call is accepted when the
\* game is not over and the target is an Empty cell of the board.
Accepted(s, row, col) ==
    /\ ~s.game_over
    /\ InBounds(row, col)
    /\ s.board[row][col] = Empty

\* The record of the last call: which operation, its arguments, what a query
\* returned, and the struct as it was when the call began.
Call(op, row, col, player, ret, pre) ==
    [op |-> op, row |-> row, col |-> col, player |-> player, ret |-> ret,
     pre |-> pre]

\* Number of Occupied cells of a board.
Marks(b) == Cardinality({rc \in Index \X Index : b[rc[1]][rc[2]] # Empty})

\* ----------------------------------------------------------------- actions

\* cx.new(|_| TicTacToe::new()) in main.
Init ==
    /\ board = new.board
    /\ current_player = new.current_player
    /\ game_over = new.game_over
    /\ winner = new.winner
    /\ panicked = FALSE
    /\ moves = 0
    /\ last = Call("new", 0, 0, "X", FALSE, new)

\* One call of make_move(row, col).  A panic ends the program.
MakeMove(row, col) ==
    /\ ~panicked
    /\ LET r == make_move(self, row, col)
       IN  /\ board' = r.self.board
           /\ current_player' = r.self.current_player
           /\ game_over' = r.self.game_over
           /\ winner' = r.self.winner
           /\ panicked' = r.panic
    /\ moves' = IF Accepted(self, row, col) THEN moves + 1 ELSE moves
    /\ last' = Call("make_move", row, col, current_player, FALSE, self)

\* One call of reset().
Reset ==
    /\ ~panicked
    /\ LET s == reset(self)
       IN  /\ board' = s.board
           /\ current_player' = s.current_player
           /\ game_over' = s.game_over
           /\ winner' = s.winner
    /\ moves' = 0
    /\ last' = Call("reset", 0, 0, "X", FALSE, self)
    /\ UNCHANGED panicked

\* One call of check_winner(player): a query on &self.
CheckWinner(player) ==
    /\ ~panicked
    /\ last' = Call("check_winner", 0, 0, player, check_winner(self, player), self)
    /\ UNCHANGED <<board, current_player, game_over, winner, panicked, moves>>

\* One call of check_draw(): a query on &self.
CheckDraw ==
    /\ ~panicked
    /\ last' = Call("check_draw", 0, 0, "X", check_draw(self), self)
    /\ UNCHANGED <<board, current_player, game_over, winner, panicked, moves>>

\* The two operations, called in any order with indices of the board.
Next ==
    \/ \E row \in Index : \E col \in Index : MakeMove(row, col)
    \/ Reset

Spec == Init /\ [][Next]_vars

\* The two operations, called in any order with any index in 0..MaxIndex.
NextOOR ==
    \/ \E row \in AnyIndex : \E col \in AnyIndex : MakeMove(row, col)
    \/ Reset

SpecOOR == Init /\ [][NextOOR]_vars

\* Every board, with any winner and game_over beside it, as the input of the
\* two queries.
InitBoards ==
    /\ board \in Boards
    /\ current_player = "X"
    /\ game_over \in BOOLEAN
    /\ winner \in OptionPlayer
    /\ panicked = FALSE
    /\ moves = Marks(board)
    /\ last = Call("new", 0, 0, "X", FALSE, self)

NextBoards ==
    \/ \E player \in Players : CheckWinner(player)
    \/ CheckDraw

SpecBoards == InitBoards /\ [][NextBoards]_vars

\* -------------------------------------------------------------- the window

\* The cells render lays out, each with a mouse-down listener that calls
\* make_move(row, col): the loops `for row in 0..3`, `for col in 0..3`.
RenderedCells == {<<row, col>> : row \in 0 .. 2, col \in 0 .. 2}

\* render, mutated: the reset button is a child of the frame in every state.
reset_button_always(s) == TRUE

\* Whether render makes the reset button a child of the frame:
\* `let game_over = self.game_over; ... .when(game_over, |el| el.child(reset_button))`.
reset_button_shown(s) == s.game_over

\* The inner match of get_status_text: the player's letter.
player_letter(p) == IF p = "X" THEN "X" ELSE "O"

\* get_status_text, mutated: game_over is not tested; the text follows winner
\* alone, and with no winner names the current player.
get_status_text_by_winner(s) ==
    IF s.winner = Some("X") THEN "Player X Wins!"
    ELSE IF s.winner = Some("O") THEN "Player O Wins!"
    ELSE "Current Player: " \o player_letter(s.current_player)

\* TicTacToe::get_status_text: with game_over the match on winner, otherwise
\* format!("Current Player: {}", letter of current_player).
get_status_text(s) ==
    IF s.game_over
    THEN IF s.winner = Some("X") THEN "Player X Wins!"
         ELSE IF s.winner = Some("O") THEN "Player O Wins!"
         ELSE "It's a Draw!"
    ELSE "Current Player: " \o player_letter(s.current_player)

\* A left mouse-down on the cell (row, col) of the frame: the listener of
\* render_cell calls make_move(row, col).  Every frame holds all nine cells.
ClickCell(row, col) ==
    /\ <<row, col>> \in RenderedCells
    /\ MakeMove(row, col)

\* A left mouse-down on the reset button: the listener calls reset().  The
\* click needs the button in the frame; the frame a click lands on is the one
\* rendered from the struct as it is when the click is dispatched.
ClickReset ==
    /\ reset_button_shown(self)
    /\ Reset

\* The program as wired: the struct is reached only through the listeners.
NextUI ==
    \/ \E row \in Index : \E col \in Index : ClickCell(row, col)
    \/ ClickReset

SpecUI == Init /\ [][NextUI]_vars

\* A click on a cell that make_move accepts.
AcceptedClick ==
    \E row \in Index : \E col \in Index :
        Accepted(self, row, col) /\ ClickCell(row, col)

\* The program as wired, with players who keep clicking on empty cells while
\* there is one to click on.
SpecLive == Init /\ [][NextUI]_vars /\ WF_vars(AcceptedClick)

\* ------------------------------------------------------ terms of the claims

\* The 8 lines of the board, each a set of three (row, col) pairs: 3 rows,
\* 3 columns, the main diagonal, the anti-diagonal.
Lines ==
    {{<<r, c>> : c \in Index} : r \in Index}
    \cup {{<<r, c>> : r \in Index} : c \in Index}
    \cup {{<<0, 0>>, <<1, 1>>, <<2, 2>>}, {<<0, 2>>, <<1, 1>>, <<2, 0>>}}

\* Player p occupies all three cells of some line of board b.
HasLine(b, p) == \E l \in Lines : \A rc \in l : b[rc[1]][rc[2]] = Cell_Player(p)

\* Every cell of board b is Occupied.
Full(b) == \A r \in Index : \A c \in Index : b[r][c] # Empty

\* Board b with player p's mark at (row, col).
Place(b, row, col, p) == [b EXCEPT ![row][col] = Cell_Player(p)]

\* The last call was make_move, and it was accepted.
LastAccepted == last.op = "make_move" /\ Accepted(last.pre, last.row, last.col)

\* The player whose turn it was when the last call began.
Mover == last.pre.current_player

\* The board the last accepted move is to produce.
PlacedBoard == Place(last.pre.board, last.row, last.col, Mover)

\* ---------------------------------------------------------------- claims

\* C1: an accepted make_move whose mark completes one of the 8 lines for the
\* moving player ends the game with that player as winner, and current_player
\* is still the moving player.
C1_WinningMove ==
    (LastAccepted /\ HasLine(PlacedBoard, Mover))
        => /\ game_over = TRUE
           /\ winner = Some(Mover)
           /\ current_player = Mover

\* C1 witness: X has just completed row 0 with its third mark, at (0,2).
C1_Witness ==
    /\ LastAccepted
    /\ Mover = "X" /\ last.row = 0 /\ last.col = 2
    /\ \A c \in Index : board[0][c] = "X"
    /\ moves = 5
    /\ winner = Some("X")

\* C2: an accepted make_move that fills the last Empty cell without completing
\* a line ends the game with winner None and current_player not advanced; and
\* a state with game_over and winner None is reached only with exactly 9
\* accepted moves since the initial state or the last reset.
C2_DrawMove ==
    /\ (LastAccepted /\ Full(PlacedBoard) /\ ~HasLine(PlacedBoard, Mover))
           => /\ game_over = TRUE
              /\ winner = None
              /\ current_player = Mover
    /\ (game_over = TRUE /\ winner = None) => moves = 9

\* C2 witness: the ninth move has just filled the board X,O,X / X,O,O / O,X,X.
C2_Witness ==
    /\ LastAccepted
    /\ moves = 9
    /\ board = [r \in Index |-> [c \in Index |->
                  <<<<"X", "O", "X">>, <<"X", "O", "O">>, <<"O", "X", "X">>>>[r + 1][c + 1]]]
    /\ game_over = TRUE /\ winner = None /\ current_player = "X"

\* C3: an accepted make_move that neither completes a line nor fills the board
\* leaves the mover's mark at (row, col), switches current_player, and leaves
\* game_over false and winner None; on the empty initial board, each of the 9
\* cells takes X and O becomes the current player.
C3_OrdinaryMove ==
    /\ (LastAccepted /\ ~HasLine(PlacedBoard, Mover) /\ ~Full(PlacedBoard))
           => /\ board[last.row][last.col] = Cell_Player(Mover)
              /\ current_player = other(Mover)
              /\ current_player # Mover
              /\ game_over = FALSE
              /\ winner = None
    /\ (last.op = "make_move" /\ last.pre = new)
           => /\ board[last.row][last.col] = Cell_Player("X")
              /\ current_player = "O"

\* C3 witness: the first move of a game, X at the centre.
C3_Witness ==
    /\ LastAccepted
    /\ last.pre = new
    /\ last.row = 1 /\ last.col = 1
    /\ board[1][1] = "X"
    /\ current_player = "O"

\* C4: a make_move called with game_over true changes none of board,
\* current_player, game_over, winner.
C4_NoMoveAfterOver ==
    (last.op = "make_move" /\ last.pre.game_over = TRUE) => self = last.pre

\* C4 witness: a make_move on an Empty cell after X has won was ignored.
C4_Witness ==
    /\ last.op = "make_move"
    /\ last.pre.game_over = TRUE
    /\ last.pre.winner = Some("X")
    /\ last.pre.board[last.row][last.col] = Empty
    /\ board[last.row][last.col] = Empty

\* C5: a make_move on an Occupied cell changes none of the four fields, and a
\* second make_move on the same cell leaves what the first one left.
C5_OccupiedCellIdempotent ==
    /\ (/\ last.op = "make_move"
        /\ InBounds(last.row, last.col)
        /\ last.pre.board[last.row][last.col] # Empty)
           => self = last.pre
    /\ \A row \in Index : \A col \in Index :
           LET once == make_move(self, row, col)
           IN  /\ ~once.panic
               /\ make_move(once.self, row, col) = once
    /\ (last.op = "make_move" /\ ~panicked) => make_move(self, last.row, last.col).self = self

\* C5 witness: while the game is on, O called make_move on a cell X holds.
C5_Witness ==
    /\ last.op = "make_move"
    /\ last.pre.game_over = FALSE
    /\ last.pre.current_player = "O"
    /\ last.pre.board[last.row][last.col] = Cell_Player("X")
    /\ game_over = FALSE

\* The last call was make_move with row or col outside {0,1,2}.
LastOutOfRange == last.op = "make_move" /\ ~(last.row \in Index /\ last.col \in Index)

\* C6, as stated: make_move with an out-of-range index is a silent no-op in
\* every state: it signals no failure and changes none of the four fields.
C6_OutOfRangeSilent ==
    LastOutOfRange => (~panicked /\ self = last.pre)

\* C6, amended: make_move with an out-of-range index is a silent no-op exactly
\* when game_over is true; while game_over is false it panics; in both cases
\* none of the four fields has changed.
C6_OutOfRangePanicsUnlessOver ==
    LastOutOfRange =>
        /\ panicked <=> (last.pre.game_over = FALSE)
        /\ self = last.pre

\* C6 witness: an out-of-range make_move after the game has ended returned
\* without a panic.
C6_Witness ==
    /\ LastOutOfRange
    /\ last.pre.game_over = TRUE
    /\ ~panicked

\* C7: reset in any reachable state yields exactly the state new() produces.
C7_ResetIsNew ==
    last.op = "reset" => (self = new /\ moves = 0)

\* C7 witness: reset after a game O has won.
C7_Witness ==
    /\ last.op = "reset"
    /\ last.pre.game_over = TRUE
    /\ last.pre.winner = Some("O")
    /\ last.pre.current_player = "O"
    /\ board = new.board

\* C8: check_winner(p) is true iff some one of the 8 lines is wholly p's, and
\* the call changes nothing.
C8_CheckWinnerIffLine ==
    last.op = "check_winner" =>
        /\ last.ret <=> HasLine(last.pre.board, last.player)
        /\ self = last.pre

\* C8 witness: check_winner(O) returned true on a board whose only line of O
\* is the anti-diagonal.
C8_Witness ==
    /\ last.op = "check_winner"
    /\ last.player = "O"
    /\ last.ret = TRUE
    /\ \A l \in Lines :
           (\A rc \in l : board[rc[1]][rc[2]] = "O")
               <=> l = {<<0, 2>>, <<1, 1>>, <<2, 0>>}

\* C9: the win test comes before the draw test: a ninth accepted move that
\* also completes a line for the mover ends the game with the mover as
\* winner; no reachable state has a full board with a completed line and
\* winner None.
C9_WinBeforeDraw ==
    /\ (LastAccepted /\ Full(PlacedBoard) /\ HasLine(PlacedBoard, Mover))
           => (game_over = TRUE /\ winner = Some(Mover))
    /\ (Full(board) /\ \E p \in Players : HasLine(board, p)) => winner # None

\* C9 witness: the ninth move filled the board and completed a line for X.
C9_Witness ==
    /\ LastAccepted
    /\ moves = 9
    /\ Full(board)
    /\ HasLine(board, "X")
    /\ ~HasLine(last.pre.board, "X")
    /\ winner = Some("X")

\* C10: winner = Some(p) implies game_over; game_over with winner None happens
\* only on a full board on which neither player has a line.
C10_WinnerImpliesOver ==
    /\ winner # None => game_over = TRUE
    /\ (game_over = TRUE /\ winner = None)
           => (Full(board) /\ \A p \in Players : ~HasLine(board, p))

\* C10 witness: a drawn game in which a further make_move has been ignored.
C10_Witness ==
    /\ game_over = TRUE
    /\ winner = None
    /\ Full(board)
    /\ last.op = "make_move"
    /\ ~Accepted(last.pre, last.row, last.col)

\* The mark the k-th accepted move of a game places: X, O, X, O, ...
KthMark(k) == IF k % 2 = 1 THEN "X" ELSE "O"

\* C11: within one game the marks of successive accepted moves alternate
\* X, O, X, O, ... starting with X: the k-th accepted move places KthMark(k);
\* current_player changes on an accepted move that does not end the game, and
\* changes neither on an ignored move nor on the accepted move that ends the
\* game.
C11_StrictAlternation ==
    /\ LastAccepted
           => /\ Mover = KthMark(moves)
              /\ board[last.row][last.col] = Cell_Player(KthMark(moves))
              /\ game_over = FALSE => current_player = other(Mover)
              /\ game_over = TRUE => current_player = Mover
    /\ (last.op = "make_move" /\ ~Accepted(last.pre, last.row, last.col))
           => current_player = last.pre.current_player
    /\ game_over = FALSE => current_player = KthMark(moves + 1)

\* C11 witness: the fourth accepted move of a game, placed by O, after which
\* it is X's turn again.
C11_Witness ==
    /\ LastAccepted
    /\ moves = 4
    /\ Mover = "O"
    /\ board[last.row][last.col] = "O"
    /\ game_over = FALSE
    /\ current_player = "X"

\* C12: every step a cell click or a reset click causes is a transition of the
\* machine InProgress / Over(winner), or changes nothing: from InProgress a
\* make_move leads to InProgress with the player swapped, to Over(Some(mover))
\* or to Over(None); from Over a make_move changes nothing; Over is left only
\* by reset, which leads to the initial state; and reset is never dispatched
\* while the game is in progress.
C12_RefinesStateMachine ==
    /\ last.op \in {"new", "make_move", "reset"}
    /\ last.op = "new" => self = new
    /\ last.op = "make_move" =>
           \/ self = last.pre
           \/ /\ last.pre.game_over = FALSE
              /\ game_over = FALSE
              /\ winner = None
              /\ current_player = other(last.pre.current_player)
           \/ /\ last.pre.game_over = FALSE
              /\ game_over = TRUE
              /\ winner = Some(last.pre.current_player)
           \/ /\ last.pre.game_over = FALSE
              /\ game_over = TRUE
              /\ winner = None
              /\ Full(board)
    /\ (last.op = "make_move" /\ last.pre.game_over = TRUE) => self = last.pre
    /\ (last.pre.game_over = TRUE /\ game_over = FALSE) => last.op = "reset"
    /\ last.op = "reset" => (last.pre.game_over = TRUE /\ self = new)

\* C12 witness: a click on the reset button shown after a drawn game.
C12_Witness ==
    /\ last.op = "reset"
    /\ last.pre.game_over = TRUE
    /\ last.pre.winner = None
    /\ Full(last.pre.board)
    /\ self = new

StatusLine == get_status_text(self)

\* C14: in every reachable state the status line is "Current Player: X" or
\* "Current Player: O", naming current_player, exactly when game_over is
\* false; "Player X Wins!" or "Player O Wins!" exactly when game_over is true
\* and winner is that player; "It's a Draw!" exactly when game_over is true
\* and winner is None.
C14_StatusLine ==
    /\ StatusLine = "Current Player: X"
           <=> (game_over = FALSE /\ current_player = "X")
    /\ StatusLine = "Current Player: O"
           <=> (game_over = FALSE /\ current_player = "O")
    /\ StatusLine = "Player X Wins!"
           <=> (game_over = TRUE /\ winner = Some("X"))
    /\ StatusLine = "Player O Wins!"
           <=> (game_over = TRUE /\ winner = Some("O"))
    /\ StatusLine = "It's a Draw!"
           <=> (game_over = TRUE /\ winner = None)
    /\ StatusLine \in {"Current Player: X", "Current Player: O",
                       "Player X Wins!", "Player O Wins!", "It's a Draw!"}

\* C14 witness: a drawn game, whose status line is "It's a Draw!" although
\* current_player is X.
C14_Witness ==
    /\ game_over = TRUE
    /\ winner = None
    /\ current_player = "X"
    /\ StatusLine = "It's a Draw!"
    /\ LastAccepted

\* C15: in every reachable state winner = Some(p) iff player p has a
\* completed line on the board; at most one player has a completed line;
\* while game_over is false neither has one; and winner = Some(p) implies
\* current_player = p.
C15_WinnerIffLine ==
    /\ \A p \in Players : winner = Some(p) <=> HasLine(board, p)
    /\ ~(HasLine(board, "X") /\ HasLine(board, "O"))
    /\ game_over = FALSE => \A p \in Players : ~HasLine(board, p)
    /\ \A p \in Players : winner = Some(p) => current_player = p

\* C15 witness: O has won with column 1, X has no line, and it is still O's
\* turn by the field.
C15_Witness ==
    /\ winner = Some("O")
    /\ \A r \in Index : board[r][1] = "O"
    /\ ~HasLine(board, "X")
    /\ current_player = "O"
    /\ game_over = TRUE

\* Number of cells of board b that hold player p's mark.
Count(b, p) == Cardinality({rc \in Index \X Index : b[rc[1]][rc[2]] = Cell_Player(p)})

\* C16: in every reachable state X has as many marks as O or one more.  While
\* game_over is false, current_player is X exactly when the counts are equal
\* and O exactly when X has one more; when game_over is true, current_player
\* is the player who placed the last mark: X if X has one more, O if the
\* counts are equal.
C16_MarkCounts ==
    LET x == Count(board, "X")
        o == Count(board, "O")
    IN  /\ x - o \in {0, 1}
        /\ game_over = FALSE =>
               /\ current_player = "X" <=> x = o
               /\ current_player = "O" <=> x = o + 1
        /\ game_over = TRUE =>
               /\ x = o + 1 => current_player = "X"
               /\ x = o => current_player = "O"
               /\ LastAccepted => current_player = Mover

\* C16 witness: O has ended the game with its third mark against three of X.
C16_Witness ==
    /\ game_over = TRUE
    /\ Count(board, "X") = 3
    /\ Count(board, "O") = 3
    /\ current_player = "O"
    /\ LastAccepted
    /\ board[last.row][last.col] = "O"

\* C17: an accepted make_move(row, col) changes exactly the cell (row, col),
\* from Empty to the mover's mark, and leaves the other 8 cells as they were;
\* no make_move changes a cell that was Occupied.
C17_OneCellPerMove ==
    /\ LastAccepted
           => /\ last.pre.board[last.row][last.col] = Empty
              /\ board[last.row][last.col] = Cell_Player(Mover)
              /\ \A r \in Index : \A c \in Index :
                     <<r, c>> # <<last.row, last.col>>
                         => board[r][c] = last.pre.board[r][c]
              /\ Marks(board) = Marks(last.pre.board) + 1
    /\ last.op = "make_move"
           => \A r \in Index : \A c \in Index :
                  last.pre.board[r][c] # Empty => board[r][c] = last.pre.board[r][c]
    /\ Marks(board) = moves

\* C17 witness: X's mark placed at (2,0) on a board that held two marks, which
\* are still where they were.
C17_Witness ==
    /\ LastAccepted
    /\ last.row = 2 /\ last.col = 0
    /\ Marks(last.pre.board) = 2
    /\ Marks(board) = 3
    /\ board[2][0] = "X"
    /\ last.pre.board[0][2] = "X"
    /\ board[0][2] = "X"

\* C18: every game terminates.  game_over is true only with at least 5 and
\* at most 9 accepted moves since the initial state or the last reset; while
\* game_over is false fewer than 9 moves have been accepted, some cell is
\* Empty and a make_move on it would be accepted; and when clicks on empty
\* cells keep occurring, a game in progress eventually is over.
C18_GameTerminates ==
    /\ [](game_over = TRUE => moves \in 5 .. 9)
    /\ [](game_over = FALSE =>
              /\ moves < 9
              /\ \E row \in Index : \E col \in Index :
                     /\ board[row][col] = Empty
                     /\ Accepted(self, row, col))
    /\ (game_over = FALSE) ~> (game_over = TRUE)

\* C18 witness: a game X has won with its third mark, on the fifth accepted
\* move, the earliest a game can end.
C18_Witness ==
    /\ game_over = TRUE
    /\ moves = 5
    /\ winner = Some("X")
    /\ Count(board, "X") = 3
    /\ Count(board, "O") = 2

====
